---------------------------- MODULE Spec2Model ----------------------------
(***************************************************************************)
(* Quotes scraper: the command-line program (simple_scraper.py,            *)
(* SimpleQuotesScraper) and the web application (flask_app.py,             *)
(* FlaskQuotesScraper behind Flask routes that share one global scraper).  *)
(*                                                                         *)
(* A Python str is a sequence of one-character strings, so that strip,     *)
(* lower, substring search, join and split are computed as Python computes *)
(* them.  An optional element (the result of find(), None when absent) is  *)
(* a sequence of length 0 or 1.  The 'timestamp' field of a quote record   *)
(* (datetime.now()) is not part of the model.                              *)
(***************************************************************************)
EXTENDS Integers, Sequences, FiniteSets, TLC

(***************************************************************************)
(* Bounds of the model.                                                    *)
(***************************************************************************)
\* Largest numeric page count a caller passes.
MaxPages == 2
\* Calls of run() on one SimpleQuotesScraper instance (its store only grows).
MaxCalls == 2
\* Page count used when none (or, in the CLI, an invalid one) is given.
DefaultPages == 3

Threads == {1, 2}
\* The command-line program has one thread.
MainThread == CHOOSE t \in Threads : \A u \in Threads : t <= u
Apps == {"simple_scraper", "flask_app"}

(***************************************************************************)
(* Strings.                                                                *)
(***************************************************************************)
Whitespace == {" "}

RECURSIVE lstrip(_)
lstrip(s) == IF s # <<>> /\ Head(s) \in Whitespace THEN lstrip(Tail(s)) ELSE s

RECURSIVE rstrip(_)
rstrip(s) ==
    IF s # <<>> /\ s[Len(s)] \in Whitespace
        THEN rstrip(SubSeq(s, 1, Len(s) - 1))
        ELSE s

\* str.strip()
strip(s) == rstrip(lstrip(s))

\* element.get_text(strip=True) of an element holding one text node
get_text(raw) == strip(raw)

LowerChar(c) ==
    CASE c = "A" -> "a"
      [] c = "B" -> "b"
      [] c = "X" -> "x"
      [] OTHER -> c

\* str.lower()
lower(s) == [i \in 1..Len(s) |-> LowerChar(s[i])]

\* needle in hay, for two str
IsSubstring(needle, hay) ==
    \E i \in 0..(Len(hay) - Len(needle)) :
        SubSeq(hay, i + 1, i + Len(needle)) = needle

\* x in list
InList(x, list) == \E i \in 1..Len(list) : list[i] = x

TagSeparator == <<";", " ">>

RECURSIVE joinSemicolon(_)
joinSemicolon(tags) ==
    IF tags = <<>> THEN <<>>
    ELSE IF Len(tags) = 1 THEN tags[1]
    ELSE tags[1] \o <<";">> \o joinSemicolon(Tail(tags))

\* '; '.join(tags)
RECURSIVE join(_)
join(tags) ==
    IF tags = <<>> THEN <<>>
    ELSE IF Len(tags) = 1 THEN tags[1]
    ELSE tags[1] \o TagSeparator \o join(Tail(tags))

\* s.split('; '): cur is the piece being read
RECURSIVE SplitFrom(_, _)
SplitFrom(s, cur) ==
    IF s = <<>> THEN <<cur>>
    ELSE IF Len(s) >= 2 /\ SubSeq(s, 1, 2) = TagSeparator
        THEN <<cur>> \o SplitFrom(SubSeq(s, 3, Len(s)), <<>>)
        ELSE SplitFrom(Tail(s), Append(cur, Head(s)))

split(s) == SplitFrom(s, <<>>)

(***************************************************************************)
(* Page documents: the <div class="quote"> containers of a fetched page.   *)
(* text / author: the <span class="text"> / <small class="author">         *)
(* element's raw content, absent when find() gives None; tags: the raw     *)
(* content of each <a class="tag">; raises: field extraction raises.       *)
(***************************************************************************)
QuoteA == [text |-> << <<" ", "A", "b", " ">> >>, author |-> << <<"a">> >>,
           tags |-> << <<"x">>, <<" ", "y">> >>, raises |-> FALSE]
QuoteB == [text |-> << <<"b">> >>, author |-> << <<"B">> >>,
           tags |-> <<>>, raises |-> FALSE]
QuoteC == [text |-> << <<"a">> >>, author |-> << <<"a">> >>,
           tags |-> << <<"x", ";", " ", "y">> >>, raises |-> FALSE]
QuoteBlankText == [text |-> << <<" ">> >>, author |-> << <<"a">> >>,
                   tags |-> << <<"x">> >>, raises |-> FALSE]
QuoteNoAuthor == [text |-> << <<"b">> >>, author |-> <<>>,
                  tags |-> <<>>, raises |-> FALSE]
QuoteRaises == [text |-> << <<"a">> >>, author |-> << <<"B">> >>,
                tags |-> <<>>, raises |-> TRUE]

PageDocs ==
    { <<>>,
      <<QuoteA, QuoteB>>,
      <<QuoteBlankText, QuoteC, QuoteNoAuthor>>,
      <<QuoteRaises, QuoteNoAuthor>>,
      <<QuoteRaises, QuoteB>> }

\* What requests.get + raise_for_status + BeautifulSoup give for one page.
NoResponse == [status |-> "none", doc |-> <<>>]
FetchError == [status |-> "error", doc |-> <<>>]
FetchResults == {FetchError} \cup {[status |-> "ok", doc |-> d] : d \in PageDocs}

(***************************************************************************)
(* scrape_page: the loop over the quote containers.                        *)
(***************************************************************************)
ElementText(el) == IF el # <<>> THEN get_text(el[1]) ELSE <<>>

TagTexts(c) == [i \in 1..Len(c.tags) |-> get_text(c.tags[i])]

\* Mutant of KeepQuote: 'or' for 'and'.
KeepQuoteEither(text, author) == text # <<>> \/ author # <<>>

\* if text and author
KeepQuote(text, author) == text # <<>> /\ author # <<>>

\* 'id' of the next record of the page
SimpleNextId(n_store, n_page) == n_store + 1

FlaskNextId(n_store, n_page) == n_store + n_page + 1

QuoteData(a, c, page_number, n_store, n_page) ==
    IF a = "flask_app"
        THEN [id |-> FlaskNextId(n_store, n_page),
              text |-> ElementText(c.text),
              author |-> ElementText(c.author),
              tags |-> TagTexts(c),
              page |-> page_number]
        ELSE [id |-> SimpleNextId(n_store, n_page),
              text |-> ElementText(c.text),
              author |-> ElementText(c.author),
              tags |-> join(TagTexts(c)),
              page |-> page_number]

RECURSIVE ExtractLoopAbort(_, _, _, _, _)
ExtractLoopAbort(a, elems, page_number, n_store, page_quotes) ==
    IF elems = <<>> THEN page_quotes
    ELSE LET c == Head(elems)
         IN  IF c.raises THEN <<>>
             ELSE ExtractLoopAbort(a, Tail(elems), page_number, n_store,
                    IF KeepQuote(ElementText(c.text), ElementText(c.author))
                        THEN Append(page_quotes,
                                    QuoteData(a, c, page_number, n_store,
                                              Len(page_quotes)))
                        ELSE page_quotes)

\* for quote_element in quote_elements: try ... except: continue
RECURSIVE ExtractLoop(_, _, _, _, _)
ExtractLoop(a, elems, page_number, n_store, page_quotes) ==
    IF elems = <<>> THEN page_quotes
    ELSE LET c == Head(elems)
             keep == /\ ~c.raises
                     /\ KeepQuote(ElementText(c.text), ElementText(c.author))
             next == IF keep
                        THEN Append(page_quotes,
                                    QuoteData(a, c, page_number, n_store,
                                              Len(page_quotes)))
                        ELSE page_quotes
         IN  ExtractLoop(a, Tail(elems), page_number, n_store, next)

\* The extracted tag lists of the records ExtractLoop keeps, in order.
RECURSIVE ExtractedTags(_)
ExtractedTags(elems) ==
    IF elems = <<>> THEN <<>>
    ELSE LET c == Head(elems)
         IN  IF ~c.raises /\ KeepQuote(ElementText(c.text), ElementText(c.author))
                THEN <<TagTexts(c)>> \o ExtractedTags(Tail(elems))
                ELSE ExtractedTags(Tail(elems))

(***************************************************************************)
(* Statistics.                                                             *)
(***************************************************************************)
Stats(total, authors, tags) ==
    [total_quotes |-> total, unique_authors |-> authors, unique_tags |-> tags]

Elements(list) == {list[i] : i \in 1..Len(list)}

\* set(quote['author'] for quote in self.quotes)
Authors(q) == {q[i].author : i \in 1..Len(q)}

\* FlaskQuotesScraper.get_stats: all_tags.extend(quote['tags'])
RECURSIVE FlaskAllTags(_)
FlaskAllTags(q) ==
    IF q = <<>> THEN <<>> ELSE Head(q).tags \o FlaskAllTags(Tail(q))

get_stats(q) ==
    IF q = <<>>
        THEN Stats(0, 0, 0)
        ELSE Stats(Len(q), Cardinality(Authors(q)),
                   Cardinality(Elements(FlaskAllTags(q))))

\* SimpleQuotesScraper.display_stats:
\* if quote['tags']: all_tags.extend(quote['tags'].split('; '))
RECURSIVE SimpleAllTags(_)
SimpleAllTags(q) ==
    IF q = <<>> THEN <<>>
    ELSE (IF Head(q).tags # <<>> THEN split(Head(q).tags) ELSE <<>>)
            \o SimpleAllTags(Tail(q))

\* What display_stats prints: nothing but a notice for an empty store.
display_stats(q) ==
    IF q = <<>>
        THEN <<>>
        ELSE <<Stats(Len(q), Cardinality(Authors(q)),
                     Cardinality(Elements(SimpleAllTags(q))))>>

(***************************************************************************)
(* FlaskQuotesScraper.filter_quotes.                                       *)
(***************************************************************************)
\* Mutant of MatchesSearch: the comparison without lower().
MatchesSearchCaseSensitive(search_text, quote) ==
    \/ search_text = <<>>
    \/ IsSubstring(search_text, quote.text)
    \/ IsSubstring(search_text, quote.author)

MatchesSearch(search_text, quote) ==
    \/ search_text = <<>>
    \/ IsSubstring(lower(search_text), lower(quote.text))
    \/ IsSubstring(lower(search_text), lower(quote.author))

MatchesTag(selected_tag, quote) ==
    selected_tag = <<>> \/ InList(selected_tag, quote.tags)

\* Mutant of FilterAppend: filtered.insert(0, quote).
FilterPrepend(filtered, quote) == <<quote>> \o filtered

\* filtered.append(quote)
FilterAppend(filtered, quote) == Append(filtered, quote)

RECURSIVE FilterLoop(_, _, _, _)
FilterLoop(q, search_text, selected_tag, filtered) ==
    IF q = <<>> THEN filtered
    ELSE FilterLoop(Tail(q), search_text, selected_tag,
                    IF MatchesSearch(search_text, Head(q))
                         /\ MatchesTag(selected_tag, Head(q))
                        THEN FilterAppend(filtered, Head(q))
                        ELSE filtered)

filter_quotes(q, search_text, selected_tag) ==
    IF search_text = <<>> /\ selected_tag = <<>>
        THEN q
        ELSE FilterLoop(q, search_text, selected_tag, <<>>)

\* Query parameters of GET /api/quotes.
SearchTexts == {<<>>, <<"a">>, <<"A", "B">>, <<"y">>}
SelectedTags == {<<>>, <<"x">>, <<"X">>, <<"y">>}

(***************************************************************************)
(* The tag listing.  Python orders strings by the code points of their     *)
(* characters, a proper prefix before the longer string.                   *)
(***************************************************************************)
CodePoint(c) ==
    CASE c = " " -> 32 [] c = ";" -> 59
      [] c = "A" -> 65 [] c = "B" -> 66 [] c = "X" -> 88
      [] c = "a" -> 97 [] c = "b" -> 98 [] c = "x" -> 120 [] c = "y" -> 121

\* a < b on str
RECURSIVE StrLess(_, _)
StrLess(a, b) ==
    IF b = <<>> THEN FALSE
    ELSE IF a = <<>> THEN TRUE
    ELSE IF Head(a) = Head(b) THEN StrLess(Tail(a), Tail(b))
    ELSE CodePoint(Head(a)) < CodePoint(Head(b))

RECURSIVE sortedReverse(_)
sortedReverse(S) ==
    IF S = {} THEN <<>>
    ELSE LET last == CHOOSE x \in S : \A y \in S \ {x} : StrLess(y, x)
         IN  <<last>> \o sortedReverse(S \ {last})

\* sorted(list(set(all_tags))), of the set
RECURSIVE sorted(_)
sorted(S) ==
    IF S = {} THEN <<>>
    ELSE LET first == CHOOSE x \in S : \A y \in S \ {x} : StrLess(x, y)
         IN  <<first>> \o sorted(S \ {first})

\* api_tags: the 'tags' of the answer
api_tags(q) ==
    IF q = <<>> THEN <<>> ELSE sorted(Elements(FlaskAllTags(q)))

(***************************************************************************)
(* The CSV export.  A CSV is its header and its rows; the timestamp column *)
(* is in the header, its values are left out of the rows.                  *)
(***************************************************************************)
Fieldnames == <<"id", "text", "author", "tags", "page", "timestamp">>

Csv(rows) == [header |-> Fieldnames, rows |-> rows]

\* What a handler gives besides its status: the message it prints or sends,
\* the CSV it writes (none, or one), the tag listing.
Output(message, csv, tags) == [message |-> message, csv |-> csv, tags |-> tags]
NoOutput == Output("", <<>>, <<>>)

\* api_export: the row of one record, its tag list joined
FlaskRow(quote) ==
    [id |-> quote.id, text |-> quote.text, author |-> quote.author,
     tags |-> join(quote.tags), page |-> quote.page]

NothingToExportNever(list) == FALSE

\* "if not filtered_quotes:" / "if not self.quotes:"
NothingToExport(list) == list = <<>>

\* api_export after filter_quotes: status and output
api_export(filtered) ==
    IF NothingToExport(filtered)
        THEN [status |-> 400, output |-> Output("No quotes to export", <<>>, <<>>)]
        ELSE [status |-> 200,
              output |-> Output("", <<Csv([i \in 1..Len(filtered) |->
                                            FlaskRow(filtered[i])])>>, <<>>)]

\* SimpleQuotesScraper.export_to_csv: the records are written as they are
export_to_csv(q) ==
    IF NothingToExport(q)
        THEN Output("No quotes to export!", <<>>, <<>>)
        ELSE Output("Successfully exported", <<Csv(q)>>, <<>>)

(***************************************************************************)
(* State.                                                                  *)
(***************************************************************************)
VARIABLES
    app,          \* which program this process runs
    quotes,       \* scraper.quotes, the collection store
    tag_lists,    \* history: the tag list extracted for each stored record
    calls,        \* simple_scraper: runs started on the scraper instance
    pc,           \* per thread: where it stands
    req,          \* per thread: the argument or request body it was given
    max_pages,    \* per thread: max_pages of its scrape_all_pages call
    page,         \* per thread: loop variable of scrape_all_pages
    response,     \* per thread: what the fetch of the current page gave
    page_quotes,  \* per thread: what scrape_page returned
    page_tags,    \* history: the tag lists of page_quotes
    appended,     \* history: records this thread's current run has appended
    fetched,      \* history: page numbers this thread's current run fetched
    slept,        \* history: time.sleep calls of this thread's current run
    resp,         \* per thread: the HTTP response / the program's output
    output        \* per thread: what else it gave: the CSV, the tag list

vars == <<app, quotes, tag_lists, calls, pc, req, max_pages, page, response,
          page_quotes, page_tags, appended, fetched, slept, resp, output>>

threadVars == <<pc, req, max_pages, page, response, page_quotes, page_tags,
                appended, fetched, slept, resp, output>>

\* A request: its kind, a numeric value, and the query parameters.
Request(kind, val, search, tag) ==
    [kind |-> kind, val |-> val, search |-> search, tag |-> tag]
NoReq == Request("none", 0, <<>>, <<>>)
\* A response: HTTP status (0: none, or the CLI's normal end), the stats
\* shown (none: the empty sequence) and the quotes returned.
Response(status, stats, list) == [status |-> status, stats |-> stats, quotes |-> list]
NoResp == Response(0, <<>>, <<>>)

\* A command-line argument / a request body's max_pages.
IntArg(n) == Request("int", n, <<>>, <<>>)
NumericArgs == {IntArg(n) : n \in (-1)..MaxPages}
AbsentArg == Request("absent", 0, <<>>, <<>>)
NonNumericArg == Request("str", 0, <<>>, <<>>)
Args == NumericArgs \cup {AbsentArg, NonNumericArg}
\* A request without a JSON body: request.get_json() gives no dict.
NoJsonBody == Request("nojson", 0, <<>>, <<>>)

IdleThreads ==
    /\ pc = [t \in Threads |-> "idle"]
    /\ req = [t \in Threads |-> NoReq]
    /\ max_pages = [t \in Threads |-> NoReq]
    /\ page = [t \in Threads |-> 0]
    /\ response = [t \in Threads |-> NoResponse]
    /\ page_quotes = [t \in Threads |-> <<>>]
    /\ page_tags = [t \in Threads |-> <<>>]
    /\ appended = [t \in Threads |-> <<>>]
    /\ fetched = [t \in Threads |-> <<>>]
    /\ slept = [t \in Threads |-> 0]
    /\ resp = [t \in Threads |-> NoResp]
    /\ output = [t \in Threads |-> NoOutput]

Init ==
    /\ app \in Apps
    /\ quotes = <<>>
    /\ tag_lists = <<>>
    /\ calls = 0
    /\ IdleThreads

(***************************************************************************)
(* simple_scraper.py: main() and SimpleQuotesScraper.run().                *)
(***************************************************************************)
\* max_pages = 3; try: max_pages = int(sys.argv[1]) except ValueError: pass
ParseArgv(argv) == IF argv.kind = "int" THEN argv.val ELSE DefaultPages

\* Entering SimpleQuotesScraper.scrape_all_pages(n): nothing is reset.
SimpleEnter(t, arg, n) ==
    /\ calls' = calls + 1
    /\ req' = [req EXCEPT ![t] = arg]
    /\ max_pages' = [max_pages EXCEPT ![t] = IntArg(n)]
    /\ page' = [page EXCEPT ![t] = 1]
    /\ pc' = [pc EXCEPT ![t] = IF n >= 1 THEN "fetch" ELSE "return"]
    /\ appended' = [appended EXCEPT ![t] = <<>>]
    /\ fetched' = [fetched EXCEPT ![t] = <<>>]
    /\ slept' = [slept EXCEPT ![t] = 0]
    /\ UNCHANGED <<output, app, quotes, tag_lists, response, page_quotes, page_tags, resp>>

\* python simple_scraper.py [argv]: a new scraper, then run(max_pages).
Main(argv) ==
    /\ app = "simple_scraper"
    /\ calls = 0
    /\ pc[MainThread] = "idle"
    /\ SimpleEnter(MainThread, argv, ParseArgv(argv))

\* scraper.run(n) called again on the same scraper instance.
RunAgain(n) ==
    /\ app = "simple_scraper"
    /\ calls \in 1..(MaxCalls - 1)
    /\ pc[MainThread] = "idle"
    /\ SimpleEnter(MainThread, IntArg(n), n)

(***************************************************************************)
(* flask_app.py: POST /api/scrape on the global scraper.                   *)
(***************************************************************************)
\* data.get('max_pages', 3)
BodyMaxPages(body) == IF body.kind = "absent" THEN IntArg(DefaultPages) ELSE body

\* api_scrape up to the call of scraper.scrape_all_pages(max_pages).
ApiScrape(t, body) ==
    /\ app = "flask_app"
    /\ pc[t] = "idle"
    /\ req' = [req EXCEPT ![t] = body]
    /\ IF body.kind = "nojson"
          THEN /\ resp' = [resp EXCEPT ![t] = Response(500, <<>>, <<>>)]
               /\ pc' = [pc EXCEPT ![t] = "respond"]
               /\ UNCHANGED max_pages
          ELSE /\ max_pages' = [max_pages EXCEPT ![t] = BodyMaxPages(body)]
               /\ pc' = [pc EXCEPT ![t] = "reset"]
               /\ UNCHANGED resp
    /\ UNCHANGED <<output, slept, app, quotes, tag_lists, calls, page, response, page_quotes,
                   page_tags, appended, fetched>>

\* self.quotes = [] and the evaluation of range(1, max_pages + 1), which
\* raises TypeError when max_pages is no number; api_scrape answers 500.
Reset(t) ==
    /\ pc[t] = "reset"
    /\ quotes' = <<>>
    /\ tag_lists' = <<>>
    /\ appended' = [appended EXCEPT ![t] = <<>>]
    /\ fetched' = [fetched EXCEPT ![t] = <<>>]
    /\ IF max_pages[t].kind = "int"
          THEN /\ page' = [page EXCEPT ![t] = 1]
               /\ pc' = [pc EXCEPT ![t] =
                            IF max_pages[t].val >= 1 THEN "fetch" ELSE "return"]
               /\ UNCHANGED resp
          ELSE /\ resp' = [resp EXCEPT ![t] = Response(500, <<>>, <<>>)]
               /\ pc' = [pc EXCEPT ![t] = "respond"]
               /\ UNCHANGED page
    /\ slept' = [slept EXCEPT ![t] = 0]
    /\ UNCHANGED <<output, app, calls, req, max_pages, response, page_quotes, page_tags>>

(***************************************************************************)
(* scrape_page and the loop body of scrape_all_pages, both programs.       *)
(***************************************************************************)
\* requests.get(url) ... raise_for_status(): a failure is caught by
\* scrape_page's handler, which returns [].
Fetch(t, r) ==
    /\ pc[t] = "fetch"
    /\ response' = [response EXCEPT ![t] = r]
    /\ pc' = [pc EXCEPT ![t] = IF r.status = "ok" THEN "extract" ELSE "check"]
    /\ fetched' = [fetched EXCEPT ![t] = Append(@, page[t])]
    /\ page_quotes' = [page_quotes EXCEPT ![t] = <<>>]
    /\ page_tags' = [page_tags EXCEPT ![t] = <<>>]
    /\ UNCHANGED <<output, slept, app, quotes, tag_lists, calls, req, max_pages, page,
                   appended, resp>>

\* The container loop of scrape_page; it reads len(self.quotes).
Extract(t) ==
    /\ pc[t] = "extract"
    /\ page_quotes' = [page_quotes EXCEPT ![t] =
            ExtractLoop(app, response[t].doc, page[t], Len(quotes), <<>>)]
    /\ page_tags' = [page_tags EXCEPT ![t] = ExtractedTags(response[t].doc)]
    /\ pc' = [pc EXCEPT ![t] = "check"]
    /\ UNCHANGED <<output, slept, app, quotes, tag_lists, calls, req, max_pages, page,
                   response, appended, fetched, resp>>

\* Mutant of AfterPage: the web application breaks on an empty page too.
AfterPageContinue(a, got_quotes, page_number, last_page) ==
    IF page_number < last_page THEN "sleep" ELSE "return"

AfterPageSleep(a, got_quotes, page_number, last_page) ==
    IF a = "flask_app" \/ got_quotes THEN "sleep" ELSE "return"

AfterPageBreak(a, got_quotes, page_number, last_page) ==
    IF got_quotes /\ page_number < last_page THEN "sleep" ELSE "return"

\* Where the loop goes after page_quotes came back: Flask goes on to the
\* next page whatever the page gave, the CLI breaks on an empty page.
AfterPage(a, got_quotes, page_number, last_page) ==
    IF a = "flask_app"
        THEN IF page_number < last_page THEN "sleep" ELSE "return"
        ELSE IF got_quotes /\ page_number < last_page THEN "sleep" ELSE "return"

\* if page_quotes: self.quotes.extend(page_quotes) [else: break]
\* if page < max_pages: time.sleep(1)
Check(t) ==
    /\ pc[t] = "check"
    /\ quotes' = quotes \o page_quotes[t]
    /\ tag_lists' = tag_lists \o page_tags[t]
    /\ appended' = [appended EXCEPT ![t] = @ \o page_quotes[t]]
    /\ pc' = [pc EXCEPT ![t] =
            AfterPage(app, page_quotes[t] # <<>>, page[t], max_pages[t].val)]
    /\ response' = [response EXCEPT ![t] = NoResponse]
    /\ page_quotes' = [page_quotes EXCEPT ![t] = <<>>]
    /\ page_tags' = [page_tags EXCEPT ![t] = <<>>]
    /\ UNCHANGED <<output, slept, app, calls, req, max_pages, page, fetched, resp>>

\* time.sleep(1), then the next iteration of the loop (its end, were
\* there no further page)
Sleep(t) ==
    /\ pc[t] = "sleep"
    /\ slept' = [slept EXCEPT ![t] = @ + 1]
    /\ IF page[t] < max_pages[t].val
          THEN /\ page' = [page EXCEPT ![t] = @ + 1]
               /\ pc' = [pc EXCEPT ![t] = "fetch"]
          ELSE /\ pc' = [pc EXCEPT ![t] = "return"]
               /\ UNCHANGED page
    /\ UNCHANGED <<output, app, quotes, tag_lists, calls, req, max_pages, response,
                   page_quotes, page_tags, appended, fetched, resp>>

\* scrape_all_pages returned.  api_scrape: stats = scraper.get_stats() and
\* the 200 answer with the quotes; run(): display_stats(), then
\* export_to_csv() "if self.quotes".
Return(t) ==
    /\ pc[t] = "return"
    /\ resp' = [resp EXCEPT ![t] =
            IF app = "flask_app"
                THEN Response(200, <<get_stats(quotes)>>, quotes)
                ELSE Response(0, display_stats(quotes), <<>>)]
    /\ output' = [output EXCEPT ![t] =
            IF app = "simple_scraper" /\ quotes # <<>>
                THEN export_to_csv(quotes)
                ELSE NoOutput]
    /\ pc' = [pc EXCEPT ![t] = "respond"]
    /\ UNCHANGED <<slept, app, quotes, tag_lists, calls, req, max_pages, page,
                   response, page_quotes, page_tags, appended, fetched>>

\* The response is sent (the program returns to its caller).
Deliver(t) ==
    /\ pc[t] = "respond"
    /\ pc' = [pc EXCEPT ![t] = "idle"]
    /\ req' = [req EXCEPT ![t] = NoReq]
    /\ max_pages' = [max_pages EXCEPT ![t] = NoReq]
    /\ page' = [page EXCEPT ![t] = 0]
    /\ resp' = [resp EXCEPT ![t] = NoResp]
    /\ appended' = [appended EXCEPT ![t] = <<>>]
    /\ fetched' = [fetched EXCEPT ![t] = <<>>]
    /\ slept' = [slept EXCEPT ![t] = 0]
    /\ output' = [output EXCEPT ![t] = NoOutput]
    /\ UNCHANGED <<app, quotes, tag_lists, calls, response, page_quotes, page_tags>>

(***************************************************************************)
(* flask_app.py: the read routes.                                          *)
(***************************************************************************)
\* GET /api/quotes?search=..&tag=..
ApiQuotes(t, search_text, selected_tag) ==
    /\ app = "flask_app"
    /\ pc[t] = "idle"
    /\ req' = [req EXCEPT ![t] = Request("quotes", 0, search_text, selected_tag)]
    /\ resp' = [resp EXCEPT ![t] =
            Response(200, <<>>, filter_quotes(quotes, search_text, selected_tag))]
    /\ pc' = [pc EXCEPT ![t] = "respond"]
    /\ UNCHANGED <<output, slept, app, quotes, tag_lists, calls, max_pages, page, response,
                   page_quotes, page_tags, appended, fetched>>

\* GET /api/stats
ApiStats(t) ==
    /\ app = "flask_app"
    /\ pc[t] = "idle"
    /\ req' = [req EXCEPT ![t] = Request("stats", 0, <<>>, <<>>)]
    /\ resp' = [resp EXCEPT ![t] = Response(200, <<get_stats(quotes)>>, <<>>)]
    /\ pc' = [pc EXCEPT ![t] = "respond"]
    /\ UNCHANGED <<output, slept, app, quotes, tag_lists, calls, max_pages, page, response,
                   page_quotes, page_tags, appended, fetched>>

\* GET /api/tags
ApiTags(t) ==
    /\ app = "flask_app"
    /\ pc[t] = "idle"
    /\ req' = [req EXCEPT ![t] = Request("tags", 0, <<>>, <<>>)]
    /\ resp' = [resp EXCEPT ![t] = Response(200, <<>>, <<>>)]
    /\ output' = [output EXCEPT ![t] = Output("", <<>>, api_tags(quotes))]
    /\ pc' = [pc EXCEPT ![t] = "respond"]
    /\ UNCHANGED <<slept, app, quotes, tag_lists, calls, max_pages, page, response,
                   page_quotes, page_tags, appended, fetched>>

\* The records of the store after an export: api_export builds a new dict
\* for every row, export_to_csv hands the records to the writer; neither
\* assigns to a record or to the list.
QuotesAfterExportReversed(q) == [i \in 1..Len(q) |-> q[Len(q) + 1 - i]]

QuotesAfterExport(q) == q

\* GET /api/export?search=..&tag=..
ApiExport(t, search_text, selected_tag) ==
    /\ app = "flask_app"
    /\ pc[t] = "idle"
    /\ req' = [req EXCEPT ![t] = Request("export", 0, search_text, selected_tag)]
    /\ LET answer == api_export(filter_quotes(quotes, search_text, selected_tag))
       IN  /\ resp' = [resp EXCEPT ![t] = Response(answer.status, <<>>, <<>>)]
           /\ output' = [output EXCEPT ![t] = answer.output]
    /\ quotes' = QuotesAfterExport(quotes)
    /\ pc' = [pc EXCEPT ![t] = "respond"]
    /\ UNCHANGED <<slept, app, tag_lists, calls, max_pages, page, response,
                   page_quotes, page_tags, appended, fetched>>

\* scraper.export_to_csv() called on a SimpleQuotesScraper, whatever its store
ExportToCsv ==
    /\ app = "simple_scraper"
    /\ pc[MainThread] = "idle"
    /\ req' = [req EXCEPT ![MainThread] = Request("export", 0, <<>>, <<>>)]
    /\ resp' = [resp EXCEPT ![MainThread] = Response(0, <<>>, <<>>)]
    /\ output' = [output EXCEPT ![MainThread] = export_to_csv(quotes)]
    /\ quotes' = QuotesAfterExport(quotes)
    /\ pc' = [pc EXCEPT ![MainThread] = "respond"]
    /\ UNCHANGED <<slept, app, tag_lists, calls, max_pages, page, response,
                   page_quotes, page_tags, appended, fetched>>

(***************************************************************************)
(* The programs with requests handled one at a time.                       *)
(***************************************************************************)
Next ==
    \/ \E argv \in Args : Main(argv)
    \/ \E n \in (-1)..MaxPages : RunAgain(n)
    \/ \E body \in Args \cup {NoJsonBody} : ApiScrape(MainThread, body)
    \/ \E s \in SearchTexts, g \in SelectedTags : ApiQuotes(MainThread, s, g)
    \/ ApiStats(MainThread)
    \/ \E s \in SearchTexts, g \in SelectedTags : ApiExport(MainThread, s, g)
    \/ ExportToCsv
    \/ ApiTags(MainThread)
    \/ Reset(MainThread)
    \/ \E r \in FetchResults : Fetch(MainThread, r)
    \/ Extract(MainThread)
    \/ Check(MainThread)
    \/ Sleep(MainThread)
    \/ Return(MainThread)
    \/ Deliver(MainThread)

Spec == Init /\ [][Next]_vars

(***************************************************************************)
(* flask_app.py under a threaded server: every request runs in a thread of *)
(* its own, all on the global scraper.                                     *)
(***************************************************************************)
\* get_stats in a handler thread, one read of scraper.quotes at a time; the
\* counts found so far are kept in the answer being built.
\* "if not self.quotes:"
StatsTest(t) ==
    /\ app = "flask_app"
    /\ pc[t] = "idle"
    /\ req' = [req EXCEPT ![t] = Request("stats", 0, <<>>, <<>>)]
    /\ IF quotes = <<>>
          THEN /\ resp' = [resp EXCEPT ![t] = Response(200, <<Stats(0, 0, 0)>>, <<>>)]
               /\ pc' = [pc EXCEPT ![t] = "respond"]
          ELSE /\ resp' = [resp EXCEPT ![t] = Response(0, <<Stats(0, 0, 0)>>, <<>>)]
               /\ pc' = [pc EXCEPT ![t] = "stats_authors"]
    /\ UNCHANGED <<output, slept, app, quotes, tag_lists, calls, max_pages, page, response,
                   page_quotes, page_tags, appended, fetched>>

\* authors = set(quote['author'] for quote in self.quotes)
StatsAuthors(t) ==
    /\ pc[t] = "stats_authors"
    /\ resp' = [resp EXCEPT ![t].stats[1].unique_authors = Cardinality(Authors(quotes))]
    /\ pc' = [pc EXCEPT ![t] = "stats_tags"]
    /\ UNCHANGED <<output, slept, app, quotes, tag_lists, calls, req, max_pages, page,
                   response, page_quotes, page_tags, appended, fetched>>

\* for quote in self.quotes: all_tags.extend(quote['tags']); set(all_tags)
StatsTags(t) ==
    /\ pc[t] = "stats_tags"
    /\ resp' = [resp EXCEPT ![t].stats[1].unique_tags =
                                Cardinality(Elements(FlaskAllTags(quotes)))]
    /\ pc' = [pc EXCEPT ![t] = "stats_total"]
    /\ UNCHANGED <<output, slept, app, quotes, tag_lists, calls, req, max_pages, page,
                   response, page_quotes, page_tags, appended, fetched>>

\* 'total_quotes': len(self.quotes), and the answer of api_stats
StatsTotal(t) ==
    /\ pc[t] = "stats_total"
    /\ resp' = [resp EXCEPT ![t].stats[1].total_quotes = Len(quotes),
                            ![t].status = 200]
    /\ pc' = [pc EXCEPT ![t] = "respond"]
    /\ UNCHANGED <<output, slept, app, quotes, tag_lists, calls, req, max_pages, page,
                   response, page_quotes, page_tags, appended, fetched>>

ThreadedBodies == {IntArg(n) : n \in 1..MaxPages}
ThreadedFetchResults ==
    {FetchError, [status |-> "ok", doc |-> <<QuoteA, QuoteB>>]}

InitThreaded == Init /\ app = "flask_app"

NextThreaded ==
    \/ \E t \in Threads, body \in ThreadedBodies : ApiScrape(t, body)
    \/ \E t \in Threads : Reset(t)
    \/ \E t \in Threads, r \in ThreadedFetchResults : Fetch(t, r)
    \/ \E t \in Threads : Extract(t)
    \/ \E t \in Threads : Check(t)
    \/ \E t \in Threads : Sleep(t)
    \/ \E t \in Threads : Return(t)
    \/ \E t \in Threads : Deliver(t)
    \/ \E t \in Threads : StatsTest(t)
    \/ \E t \in Threads : StatsAuthors(t)
    \/ \E t \in Threads : StatsTags(t)
    \/ \E t \in Threads : StatsTotal(t)

SpecThreaded == InitThreaded /\ [][NextThreaded]_vars

(***************************************************************************)
(* flask_app.py, one request at a time, with a handler that keeps running: *)
(* a started handler takes its next step, every requests.get comes back    *)
(* with a response or an exception (the code sets no timeout; a fetch that *)
(* never returns is outside this specification) and time.sleep(1) ends.    *)
(***************************************************************************)
InitFlask == Init /\ app = "flask_app"

RunStep(t) ==
    \/ Reset(t)
    \/ \E r \in FetchResults : Fetch(t, r)
    \/ Extract(t)
    \/ Check(t)
    \/ Sleep(t)
    \/ Return(t)

NextFlask ==
    \/ \E body \in Args \cup {NoJsonBody} : ApiScrape(MainThread, body)
    \/ RunStep(MainThread)
    \/ Deliver(MainThread)

SpecFlaskFair ==
    InitFlask /\ [][NextFlask]_vars /\ WF_vars(RunStep(MainThread))

(***************************************************************************)
(* Both programs on pages of one complete container whose tag list is any  *)
(* list of up to MaxTags tags, an empty tag and a tag holding the          *)
(* separator among them: one run of one page, then the export.             *)
(***************************************************************************)
MaxTags == 2

TagStrings == {<<>>, <<"x">>, <<"y">>, <<"x", ";", " ", "y">>}
TagLists == UNION {[1..n -> TagStrings] : n \in 0..MaxTags}

TaggedQuote(tags) ==
    [text |-> << <<"a">> >>, author |-> << <<"a">> >>, tags |-> tags,
     raises |-> FALSE]
TaggedFetchResults ==
    {[status |-> "ok", doc |-> <<TaggedQuote(tags)>>] : tags \in TagLists}

NextTags ==
    \/ Main(IntArg(1))
    \/ ApiScrape(MainThread, IntArg(1))
    \/ Reset(MainThread)
    \/ \E r \in TaggedFetchResults : Fetch(MainThread, r)
    \/ Extract(MainThread)
    \/ Check(MainThread)
    \/ Return(MainThread)
    \/ Deliver(MainThread)
    \/ ApiExport(MainThread, <<>>, <<>>)
    \/ ExportToCsv

SpecTags == Init /\ [][NextTags]_vars

(***************************************************************************)
(* Properties.                                                             *)
(***************************************************************************)
\* A thread whose scrape_all_pages call has returned normally.
RunCompleted(t) ==
    /\ pc[t] = "respond"
    /\ req[t].kind \in {"int", "absent", "str"}
    /\ resp[t].status # 500

\* C1: the ids of the stored records are strictly increasing in store
\* order (so pairwise distinct), in both programs.
C1_IdsStrictlyIncreasing ==
    \A i \in 1..(Len(quotes) - 1) : quotes[i].id < quotes[i + 1].id

\* C2: when a call of scrape_all_pages has returned, the store holds the
\* records appended during that call and nothing else, in both programs.
C2_RunReplacesStore ==
    \A t \in Threads : RunCompleted(t) => quotes = appended[t]

\* A thread back from scrape_page with a failed fetch of its page.
FetchFailed(t) == pc[t] = "check" /\ response[t].status = "error"

\* C3 as claimed: after a failed fetch of page n < max_pages the run goes
\* on to page n + 1, in both programs.
C3_RunContinuesAfterFailedFetch ==
    [][\A t \in Threads :
          (FetchFailed(t) /\ page[t] < max_pages[t].val /\ pc'[t] # pc[t])
              => (pc'[t] = "sleep" /\ page'[t] = page[t])]_vars

\* C3 as amended: a failed fetch of page n gives that page zero records,
\* leaves the store as it was and raises nothing out of the run; the web
\* application then goes on to page n + 1 when n < max_pages, while the
\* command-line program ends its run at page n.
C3_FailedFetchIsAnEmptyPage ==
    /\ [](\A t \in Threads : FetchFailed(t) => page_quotes[t] = <<>>)
    /\ [][\A t \in Threads :
            /\ (pc[t] = "fetch" /\ pc'[t] # pc[t])
                  => (quotes' = quotes /\ pc'[t] \in {"extract", "check"})
            /\ (FetchFailed(t) /\ pc'[t] # pc[t])
                  => /\ quotes' = quotes
                     /\ resp'[t] = resp[t]
                     /\ pc'[t] =
                          IF app = "flask_app" /\ page[t] < max_pages[t].val
                              THEN "sleep" ELSE "return"]_vars

\* C3 witness: the web application, records already stored, the fetch of
\* a page that is not the last one has failed.
C3_Witness ==
    \E t \in Threads :
        /\ app = "flask_app"
        /\ FetchFailed(t)
        /\ page[t] < max_pages[t].val
        /\ quotes # <<>>

\* C4: at most one thread is inside scrape_all_pages (between its reset
\* of the store and its return) at any moment.
InRun(t) == pc[t] \in {"fetch", "extract", "check", "sleep"}

C4_SingleWriter == Cardinality({t \in Threads : InRun(t)}) <= 1

\* C5: a request or command line with a non-numeric page count ends
\* without an error answer, after a run with the default page count.
C5_NonNumericFallsBackToDefault ==
    \A t \in Threads :
        (pc[t] = "respond" /\ req[t].kind = "str")
            => /\ resp[t].status # 500
               /\ max_pages[t] = IntArg(DefaultPages)

\* The match the filter is specified by, written out on characters.
ContainsIgnoringCase(needle, hay) ==
    \E i \in 1..(Len(hay) - Len(needle) + 1) :
        \A k \in 1..Len(needle) : LowerChar(hay[i + k - 1]) = LowerChar(needle[k])

SpecifiedMatch(r, s, g) ==
    /\ \/ s = <<>>
       \/ ContainsIgnoringCase(s, r.text)
       \/ ContainsIgnoringCase(s, r.author)
    /\ \/ g = <<>>
       \/ \E j \in 1..Len(r.tags) : r.tags[j] = g

FilterAnswered(t) == pc[t] = "respond" /\ req[t].kind = "quotes"

\* C6: filter_quotes returns exactly the stored records that match the
\* search text (case-insensitively, in text or author) and the tag
\* (exactly), each once; with both empty it returns the whole store.
C6_FilterReturnsTheMatches ==
    \A t \in Threads :
        FilterAnswered(t) =>
            LET res == resp[t].quotes
                s == req[t].search
                g == req[t].tag
            IN  /\ Elements(res) =
                      {r \in Elements(quotes) : SpecifiedMatch(r, s, g)}
                /\ Cardinality(Elements(res)) = Len(res)
                /\ (s = <<>> /\ g = <<>>) => res = quotes

\* C6 witness: a search in capitals has matched one record of several by
\* its mixed-case text.
C6_Witness ==
    \E t \in Threads :
        /\ FilterAnswered(t)
        /\ req[t].search = <<"A", "B">>
        /\ Len(quotes) >= 2
        /\ Len(resp[t].quotes) = 1

RECURSIVE IsSubsequence(_, _)
IsSubsequence(a, b) ==
    IF a = <<>> THEN TRUE
    ELSE IF b = <<>> THEN FALSE
    ELSE IF Head(a) = Head(b) THEN IsSubsequence(Tail(a), Tail(b))
    ELSE IsSubsequence(a, Tail(b))

\* C7: the result of filter_quotes is a subsequence of the store, its
\* records in the store's order.
C7_FilterIsSubsequence ==
    \A t \in Threads :
        FilterAnswered(t) => IsSubsequence(resp[t].quotes, quotes)

\* C7 witness: a filter has kept two records of three.
C7_Witness ==
    \E t \in Threads :
        /\ FilterAnswered(t)
        /\ Len(quotes) = 3
        /\ Len(resp[t].quotes) = 2

\* An element that is absent or holds only whitespace.
IsBlank(el) == el = <<>> \/ \A i \in 1..Len(el[1]) : el[1][i] \in Whitespace

Complete(list) ==
    \A i \in 1..Len(list) : list[i].text # <<>> /\ list[i].author # <<>>

\* C8: every record in the store (and every record scrape_page returns)
\* has a non-empty text and author, and a page yields no more records
\* than it has containers whose text and author are both non-blank.
C8_StoredRecordsAreComplete ==
    /\ Complete(quotes)
    /\ \A t \in Threads :
          /\ Complete(page_quotes[t])
          /\ (pc[t] = "check" /\ response[t].status = "ok")
                => Len(page_quotes[t]) <=
                     Cardinality({i \in 1..Len(response[t].doc) :
                                     /\ ~IsBlank(response[t].doc[i].text)
                                     /\ ~IsBlank(response[t].doc[i].author)})

\* C8 witness: a page with a blank text and a missing author has been
\* extracted, and gave the one complete record between them.
C8_Witness ==
    \E t \in Threads :
        /\ pc[t] = "check"
        /\ response[t].doc = <<QuoteBlankText, QuoteC, QuoteNoAuthor>>
        /\ Len(page_quotes[t]) = 1

\* C9: when a run with max_pages = N has completed, every stored record
\* has its page in 1..N, in both programs.
C9_PagesWithinRun ==
    \A t \in Threads :
        RunCompleted(t) =>
            \A i \in 1..Len(quotes) : quotes[i].page \in 1..max_pages[t].val

\* C10: the statistics given are the number of stored records, of distinct
\* authors and of distinct tag strings over the records' tag lists.
C10_StatsAsSpecified ==
    \A t \in Threads :
        (pc[t] = "respond" /\ resp[t].stats # <<>>) =>
            resp[t].stats[1] =
                Stats(Len(quotes),
                      Cardinality({quotes[i].author : i \in 1..Len(quotes)}),
                      Cardinality(UNION {Elements(tag_lists[i]) :
                                            i \in 1..Len(tag_lists)}))

ExportAnswered(t) == pc[t] = "respond" /\ req[t].kind = "export"

NoneMatches(t) ==
    IF app = "flask_app"
        THEN \A i \in 1..Len(quotes) :
                 ~SpecifiedMatch(quotes[i], req[t].search, req[t].tag)
        ELSE quotes = <<>>

\* C11: an export over zero matching records is turned down, with an error
\* answer and no CSV in flask_app.py, with a message and no file in
\* simple_scraper.py; the store is as it was before the request.
C11_EmptyExportRejected ==
    [][\A t \in Threads :
        (pc[t] = "idle" /\ ExportAnswered(t)' /\ NoneMatches(t)') =>
            /\ output'[t].csv = <<>>
            /\ output'[t].message # ""
            /\ app = "flask_app" => resp'[t].status = 400
            /\ quotes' = quotes]_vars

\* C11 witness: flask_app.py has turned down an export whose filter matches
\* none of the records of a store that is not empty.
C11_Witness ==
    \E t \in Threads :
        /\ ExportAnswered(t)
        /\ app = "flask_app"
        /\ quotes # <<>>
        /\ NoneMatches(t)
        /\ output[t].csv = <<>>
        /\ resp[t].status = 400

\* C12: in both programs a run sleeps only between two fetches: before
\* every fetch but the first there has been one delay, and when the run is
\* over (an early stop included) it has slept once less than it fetched,
\* the last fetch being followed by none.
C12_DelaysBetweenFetches ==
    \A t \in Threads :
        /\ pc[t] = "fetch" => slept[t] = Len(fetched[t])
        /\ pc[t] \in {"extract", "check", "sleep"} =>
               slept[t] = Len(fetched[t]) - 1
        /\ (pc[t] = "return" \/ RunCompleted(t)) =>
               slept[t] = IF fetched[t] = <<>> THEN 0 ELSE Len(fetched[t]) - 1

\* C12 witness: a run of simple_scraper.py that stopped early, at its
\* second page of three, is over after two fetches and one delay.
C12_Witness ==
    \E t \in Threads :
        /\ app = "simple_scraper"
        /\ RunCompleted(t)
        /\ Len(fetched[t]) = 2
        /\ max_pages[t].val > 2
        /\ slept[t] = 1

\* No tag of the list holds the separator.
NoSeparatorInside(tags) ==
    \A j \in 1..Len(tags) : ~IsSubstring(TagSeparator, tags[j])

\* The tags column of every CSV a thread has written, by row.
ExportedTags(t) ==
    IF output[t].csv = <<>> THEN <<>>
    ELSE [i \in 1..Len(output[t].csv[1].rows) |-> output[t].csv[1].rows[i].tags]

\* C13 as stated: the joined tags of every record whose tags do not hold
\* the separator split back into the record's tag list, the empty list and
\* lists with an empty tag included; for the stored string of
\* simple_scraper.py and for the tags column of both exports.
C13_JoinSplitRoundTrip ==
    /\ app = "simple_scraper" =>
           \A i \in 1..Len(quotes) :
               NoSeparatorInside(tag_lists[i]) =>
                   split(quotes[i].tags) = tag_lists[i]
    /\ \A t \in Threads : \A i \in 1..Len(ExportedTags(t)) :
           NoSeparatorInside(tag_lists[i]) =>
               split(ExportedTags(t)[i]) = tag_lists[i]

\* C13 amended: the round trip holds for every tag list that is not empty
\* and whose tags do not hold the separator, lists with an empty tag
\* included; the empty list joins to the empty string, which splits into
\* one empty tag.
C13_NonEmptyListsRoundTrip ==
    /\ app = "simple_scraper" =>
           \A i \in 1..Len(quotes) :
               /\ (tag_lists[i] # <<>> /\ NoSeparatorInside(tag_lists[i])) =>
                      split(quotes[i].tags) = tag_lists[i]
               /\ tag_lists[i] = <<>> => split(quotes[i].tags) = << <<>> >>
    /\ \A t \in Threads : \A i \in 1..Len(ExportedTags(t)) :
           /\ (tag_lists[i] # <<>> /\ NoSeparatorInside(tag_lists[i])) =>
                  split(ExportedTags(t)[i]) = tag_lists[i]
           /\ tag_lists[i] = <<>> => split(ExportedTags(t)[i]) = << <<>> >>

\* C13 witness: flask_app.py has exported a record whose two tags are an
\* empty tag and "x", and the column splits back into them.
C13_Witness ==
    \E t \in Threads :
        /\ app = "flask_app"
        /\ Len(ExportedTags(t)) = 1
        /\ tag_lists[1] = << <<>>, <<"x">> >>
        /\ ExportedTags(t)[1] = <<";", " ", "x">>
        /\ split(ExportedTags(t)[1]) = tag_lists[1]

\* A thread that has answered a read request: filter, statistics, tag
\* listing or export.
ReadKinds == {"quotes", "stats", "tags", "export"}
ReadAnswered(t) == pc[t] = "respond" /\ req[t].kind \in ReadKinds

\* C14: a read request (filter, statistics, tag listing, export) leaves
\* the store, its records and their order, as it was before the request.
C14_ReadsLeaveStore ==
    [][\A t \in Threads :
        (pc[t] = "idle" /\ ReadAnswered(t)') => quotes' = quotes]_vars

\* C14 witness: an export has given a CSV of a store whose records still
\* hold their tags as lists.
C14_Witness ==
    \E t \in Threads :
        /\ ReadAnswered(t)
        /\ req[t].kind = "export"
        /\ app = "flask_app"
        /\ output[t].csv # <<>>
        /\ \E i \in 1..Len(quotes) : Len(quotes[i].tags) = 2
        /\ \A i \in 1..Len(quotes) : quotes[i].tags = tag_lists[i]

\* a comes before b in the order of strings: a is a proper prefix of b, or
\* at the first place where they differ a has the lower code point.
Precedes(a, b) ==
    \/ Len(a) < Len(b) /\ SubSeq(b, 1, Len(a)) = a
    \/ \E k \in 1..Len(a) :
           /\ k <= Len(b)
           /\ SubSeq(a, 1, k - 1) = SubSeq(b, 1, k - 1)
           /\ CodePoint(a[k]) < CodePoint(b[k])

StoredTags ==
    UNION {Elements(quotes[i].tags) : i \in 1..Len(quotes)}

\* C15: the tag listing holds every tag of the stored records once, in
\* strictly ascending order of strings; it is empty for an empty store.
C15_TagListingSortedDistinct ==
    \A t \in Threads :
        (pc[t] = "respond" /\ req[t].kind = "tags") =>
            LET tags == output[t].tags
            IN  /\ Elements(tags) = StoredTags
                /\ \A i, j \in 1..Len(tags) : i < j => Precedes(tags[i], tags[j])
                /\ quotes = <<>> => tags = <<>>

\* C15 witness: the listing of a store whose tags came in as x, y, "x; y",
\* x, y is x, "x; y", y.
C15_Witness ==
    \E t \in Threads :
        /\ pc[t] = "respond" /\ req[t].kind = "tags"
        /\ Len(FlaskAllTags(quotes)) > 3
        /\ output[t].tags = << <<"x">>, <<"x", ";", " ", "y">>, <<"y">> >>
        /\ FlaskAllTags(quotes)[3] = <<"x", ";", " ", "y">>

\* C16: the records a page gave while the store held m records have the
\* ids m + 1, m + 2, ... in the order they were produced, in both programs.
C16_IdsContinueFromStore ==
    \A t \in Threads :
        pc[t] = "check" =>
            \A k \in 1..Len(page_quotes[t]) :
                page_quotes[t][k].id = Len(quotes) + k

\* The places of the containers of a page that have a text and an author,
\* neither blank, and whose extraction does not raise.
GoodContainers(doc) ==
    {i \in 1..Len(doc) :
        ~doc[i].raises /\ ~IsBlank(doc[i].text) /\ ~IsBlank(doc[i].author)}

\* C17: scrape_page returns, for a fetched page, one record for every
\* container that has text and author and does not raise, in document
\* order, and none for the others, wherever those stand in the page.
C17_MalformedContainersSkipped ==
    \A t \in Threads :
        (pc[t] = "check" /\ response[t].status = "ok") =>
            LET doc == response[t].doc
                good == GoodContainers(doc)
            IN  /\ Len(page_quotes[t]) = Cardinality(good)
                /\ \A i \in good :
                       LET k == Cardinality({j \in good : j <= i})
                       IN  /\ page_quotes[t][k].text = strip(doc[i].text[1])
                           /\ page_quotes[t][k].author = strip(doc[i].author[1])

\* C17 witness: a page whose first container raises and whose second is
\* complete has given the one record of the second.
C17_Witness ==
    \E t \in Threads :
        /\ pc[t] = "check" /\ response[t].status = "ok"
        /\ Len(response[t].doc) = 2
        /\ response[t].doc[1].raises
        /\ Len(page_quotes[t]) = 1
        /\ page_quotes[t][1].author = <<"B">>

\* The pages 1, 2, ..., n in order.
PagesUpTo(n) == [i \in 1..n |-> i]

\* A thread inside api_scrape with a numeric max_pages, from the reset on.
FlaskRunStarted(t) ==
    /\ app = "flask_app"
    /\ pc[t] = "reset"
    /\ max_pages[t].kind = "int"

\* C18: a run of FlaskQuotesScraper for N pages fetches the pages 1, 2, ...
\* in order, none twice and none left out, whatever the pages give, and
\* comes to its end having fetched exactly N of them; for N <= 0 it
\* fetches nothing and returns an empty store.
C18_FlaskRunFetchesEachPageOnce ==
    /\ [](\A t \in Threads :
            app = "flask_app" =>
                /\ fetched[t] = PagesUpTo(Len(fetched[t]))
                /\ RunCompleted(t) =>
                       IF max_pages[t].val >= 1
                           THEN fetched[t] = PagesUpTo(max_pages[t].val)
                           ELSE /\ fetched[t] = <<>>
                                /\ quotes = <<>>
                                /\ resp[t].quotes = <<>>)
    /\ \A t \in Threads : FlaskRunStarted(t) ~> RunCompleted(t)

\* C18 witness: a run for several pages is over, has fetched every page
\* and has stored nothing, no page having given a record.
C18_Witness ==
    \E t \in Threads :
        /\ app = "flask_app"
        /\ RunCompleted(t)
        /\ max_pages[t].val >= 2
        /\ Len(fetched[t]) = max_pages[t].val
        /\ quotes = <<>>

\* The records thread t's run has appended from page p.
AppendedFrom(t, p) == {i \in 1..Len(appended[t]) : appended[t][i].page = p}

\* C19: a run of SimpleQuotesScraper goes past a page only if that page
\* gave a record: the pages fetched are 1..n in order, every one before
\* the last has records among those appended, the run moves on to a
\* further page only after a page with records, and the appended records
\* are those of the pages fetched, in page order.
C19_SimpleStopsAtFirstEmptyPage ==
    \A t \in Threads :
        app = "simple_scraper" =>
            LET n == Len(fetched[t])
            IN  /\ fetched[t] = PagesUpTo(n)
                /\ \A p \in 1..(n - 1) : AppendedFrom(t, p) # {}
                /\ \A i \in 1..Len(appended[t]) : appended[t][i].page \in 1..n
                /\ \A i, j \in 1..Len(appended[t]) :
                       i < j => appended[t][i].page <= appended[t][j].page
                /\ (pc[t] \in {"sleep", "fetch"} /\ n > 0) =>
                       AppendedFrom(t, n) # {}

\* C19 witness: a run for three pages is over after its second page gave
\* nothing; what it appended are the records of page 1.
C19_Witness ==
    \E t \in Threads :
        /\ app = "simple_scraper"
        /\ RunCompleted(t)
        /\ fetched[t] = <<1, 2>>
        /\ max_pages[t].val = DefaultPages
        /\ AppendedFrom(t, 1) # {}
        /\ AppendedFrom(t, 2) = {}

\* C20: every answer of get_stats fits one state of the store, also when
\* the call runs while another thread's run resets and fills the store: it
\* counts no more authors than records, and no author and no tag when it
\* counts no record.
C20_StatsConsistent ==
    \A t \in Threads :
        (pc[t] = "respond" /\ req[t].kind = "stats") =>
            LET stats == resp[t].stats[1]
            IN  /\ stats.unique_authors <= stats.total_quotes
                /\ stats.total_quotes = 0 =>
                       (stats.unique_authors = 0 /\ stats.unique_tags = 0)

=============================================================================
